---- MODULE Spec2Model ----
(***************************************************************************)
(* Model of tutorials/Variation Services/Jupyter_Notebook/plot.ipynb:      *)
(* the paginated download of frequency records, the MAF computation, the   *)
(* position series, the cross-frequency aggregation and the population     *)
(* name resolver.                                                          *)
(***************************************************************************)
EXTENDS Integers, Sequences, FiniteSets, TLC

VARIABLES
    pc,      \* download: "top" (head of the while loop), "wait" (inside get),
             \*           "returned", "raised"
    start,   \* download: the local variable start
    stop,    \* download: the parameter stop
    data,    \* download: the local dict data (key -> record)
    req,     \* download: the interval of the request in flight, <<start, length>>
    resp,    \* download: the last reply, [status, body]
    ret,     \* download: the values returned: Nothing, then <<data>>
    err,     \* download: the arguments of the raised Exception, or Nothing
    reqs,    \* history: the requests download has issued, in order
    hist,    \* history: the replies download has received, in order
    mafPc,   \* maf: "call" before the call, "done" after it, "idle" when unused
    record,  \* maf: the argument record, its project blocks in iteration order
    mafOut,  \* maf: what the call gave, [maf, error]
    trPc,    \* translate: "call", "done" or "idle"
    trData,  \* translate: the argument data, a sequence of <<key, record>>
    position, \* translate: the list position
    freq,    \* translate: the defaultdict freq
    cfPc,    \* cross_frequency: "loop", "done", "KeyError" or "idle"
    pop_id_x, \* cross_frequency: the parameter pop_id_x
    pop_id_y, \* cross_frequency: the parameter pop_id_y
    allele_counts, \* cross_frequency: counts['allele_counts'] of the last block visited
    res_x,   \* cross_frequency: the defaultdict res_x
    res_y,   \* cross_frequency: the defaultdict res_y
    records_missing_pop_data, \* cross_frequency: the skip counter
    total_records,  \* cross_frequency: the record counter
    stderr,  \* cross_frequency: the numbers of the message printed to sys.stderr
    visited, \* history: number of project blocks visited by cross_frequency
    zeroBlocks, \* history: number of visited blocks with a population of total 0
    pmPc,    \* build_pop_map: "call", "returned", "raised" or "idle"
    forest,  \* build_pop_map: the shape of the metadata tree the server holds
    meta_r,  \* build_pop_map: the reply, [status_code, populations]
    pmResult \* build_pop_map: the dict result

dlVars == <<pc, start, stop, data, req, resp, ret, err, reqs, hist>>

mafVars == <<mafPc, record, mafOut>>

trVars == <<trPc, trData, position, freq>>

cfVars == <<cfPc, pop_id_x, pop_id_y, allele_counts, res_x, res_y,
            records_missing_pop_data, total_records, stderr, visited, zeroBlocks>>

pmVars == <<pmPc, forest, meta_r, pmResult>>

vars == <<dlVars, mafVars, trVars, cfVars, pmVars>>

NoValue == "None"

\* a variable that holds no value yet: the empty tuple
Nothing == <<>>

----------------------------------------------------------------------------
(* Bounds of the model *)

\* positions of the variant records are 1..MaxPos
MaxPos == 2
\* the server sends at most MaxReq replies to one call of download
MaxReq == 3

----------------------------------------------------------------------------
(* HTTP status codes *)

HTTP_OK == 200
HTTP_PARTIAL == 206

\* the status codes the server may answer with
Statuses == {HTTP_OK, 201, HTTP_PARTIAL, 304, 404}

----------------------------------------------------------------------------
(* Record keys "<prefix>@<position>", as sequences of characters *)

Digit == <<"0", "1", "2", "3", "4", "5", "6", "7", "8", "9">>

RECURSIVE Str(_)
\* the decimal representation of a natural number (str / f-string formatting)
Str(n) == IF n < 10 THEN <<Digit[n + 1]>> ELSE Str(n \div 10) \o <<Digit[(n % 10) + 1]>>

\* the unused prefix of the key of the record at position p
Prefix(p) == IF p % 2 = 1 THEN <<"r", "s">> ELSE <<"x">>

\* the key of the record at position p
Key(p) == Prefix(p) \o <<"@">> \o Str(p)

Positions == 1..MaxPos

Keys == {Key(p) : p \in Positions}

RECURSIVE SplitFrom(_, _, _, _)
\* k.split(sep): scans k from index i with the current part cur
SplitFrom(k, sep, i, cur) ==
    IF i > Len(k) THEN <<cur>>
    ELSE IF k[i] = sep THEN <<cur>> \o SplitFrom(k, sep, i + 1, <<>>)
    ELSE SplitFrom(k, sep, i + 1, Append(cur, k[i]))

Split(k, sep) == SplitFrom(k, sep, 1, <<>>)

DigitValue(c) == CHOOSE d \in 0..9 : Digit[d + 1] = c

RECURSIVE ParseInt(_)
\* int(s) for a string of decimal digits
ParseInt(s) == IF Len(s) = 0 THEN 0
          ELSE 10 * ParseInt(SubSeq(s, 1, Len(s) - 1)) + DigitValue(s[Len(s)])

\* l, s = k.split('@'); int(s)
PositionOf(k) == ParseInt(Split(k, "@")[2])

----------------------------------------------------------------------------
(* download(seq_id, start, stop) *)

\* resp.json()["results"] of the n-th reply: the records at the keys S; a
\* record is represented by the number of the reply that carries it, so the
\* records of two replies differ
Page(S, n) == [k \in S |-> n]

\* Length without the floor at 1
LengthNoFloor(s, e) == e - s + 1

\* length = max(1, stop - start + 1)
Length(s, e) == IF e - s + 1 > 1 THEN e - s + 1 ELSE 1

\* IsFailure with only the 4xx and 5xx statuses taken as failures
IsFailureFrom400(status) == status >= 400

\* IsFailure with every status but 200 and 206 taken as a failure
IsFailureUnless200Or206(status) == status \notin {HTTP_OK, HTTP_PARTIAL}

\* resp.status_code // 100 != 2
IsFailure(status) == status \div 100 # 2

\* IsComplete with every status but 206 taken as complete
IsCompleteUnlessPartial(status) == status # HTTP_PARTIAL

\* resp.status_code == 200
IsComplete(status) == status = HTTP_OK

\* Update that keeps the record already held for a key (setdefault)
UpdateKeepFirst(d, result) ==
    [k \in DOMAIN d \cup DOMAIN result |-> IF k \in DOMAIN d THEN d[k] ELSE result[k]]

\* data.update(result)
Update(d, result) ==
    [k \in DOMAIN d \cup DOMAIN result |-> IF k \in DOMAIN result THEN result[k] ELSE d[k]]

RECURSIVE AdvanceOver(_, _)
\* for k, v in result.items(): l, s = k.split('@'); start = max(start, int(s))
AdvanceOver(s, todo) ==
    IF todo = {} THEN s
    ELSE LET k == CHOOSE x \in todo : TRUE
             p == PositionOf(k)
         IN AdvanceOver(IF s >= p THEN s ELSE p, todo \ {k})

\* Advance without the max with the current start: start = max(int(s))
AdvanceToPageMax(s, result) ==
    IF DOMAIN result = {} THEN s ELSE AdvanceOver(0, DOMAIN result)

Advance(s, result) == AdvanceOver(s, DOMAIN result)

EmptyDict == <<>>

NoReply == [status |-> 0, body |-> EmptyDict]

\* the state of a function the specification at hand does not run
DownloadIdle ==
    /\ pc = "idle" /\ start = 0 /\ stop = 0 /\ data = EmptyDict /\ req = Nothing
    /\ resp = NoReply /\ ret = Nothing /\ err = Nothing /\ reqs = <<>> /\ hist = <<>>

MafIdle == mafPc = "idle" /\ record = <<>> /\ mafOut = Nothing

TranslateIdle == trPc = "idle" /\ trData = <<>> /\ position = <<>> /\ freq = EmptyDict

CrossIdle ==
    /\ cfPc = "idle" /\ pop_id_x = NoValue /\ pop_id_y = NoValue /\ allele_counts = EmptyDict
    /\ res_x = EmptyDict /\ res_y = EmptyDict /\ records_missing_pop_data = 0
    /\ total_records = 0 /\ stderr = Nothing /\ visited = 0 /\ zeroBlocks = 0

PopMapIdle == pmPc = "idle" /\ forest = <<>> /\ meta_r = NoValue /\ pmResult = EmptyDict

DownloadInit ==
    /\ pc = "top"
    /\ start \in Positions
    /\ stop \in Positions
    /\ data = EmptyDict
    /\ req = Nothing
    /\ resp = NoReply
    /\ ret = Nothing
    /\ err = Nothing
    /\ reqs = <<>>
    /\ hist = <<>>

\* the head of the loop: compute length and call get
GetBody ==
    /\ pc = "top"
    /\ req' = <<start, Length(start, stop)>>
    /\ pc' = "wait"
    /\ UNCHANGED <<start, stop, data, resp, ret, err>>

\* the rest of the loop body, run on the reply r
RespondBody(r) ==
    /\ pc = "wait"
    /\ resp' = r
    /\ IF IsFailure(r.status)
       THEN /\ err' = <<"Unable to download data", r.status, r.body>>
            /\ pc' = "raised"
            /\ UNCHANGED <<start, data, ret>>
       ELSE /\ data' = Update(data, r.body)
            /\ IF IsComplete(r.status)
               THEN /\ ret' = <<data'>>
                    /\ pc' = "returned"
                    /\ UNCHANGED <<start, err>>
               ELSE /\ start' = Advance(start, r.body)
                    /\ pc' = "top"
                    /\ UNCHANGED <<ret, err>>
    /\ UNCHANGED <<stop, req>>

\* the reply with the given status and the records at the keys S
Reply(status, S) == [status |-> status, body |-> Page(S, Len(reqs))]

Get ==
    /\ GetBody
    /\ reqs' = Append(reqs, req')
    /\ UNCHANGED <<hist, mafVars, trVars, cfVars, pmVars>>

\* the server answers the request in flight with any status and any page; it
\* sends at most MaxReq replies, so the last one it sends ends the download
Server ==
    \E status \in Statuses, S \in SUBSET Keys :
        /\ (Len(reqs) >= MaxReq => (IsFailure(status) \/ IsComplete(status)))
        /\ RespondBody(Reply(status, S))
        /\ hist' = Append(hist, Reply(status, S))
        /\ UNCHANGED <<reqs, mafVars, trVars, cfVars, pmVars>>

Init == DownloadInit /\ MafIdle /\ TranslateIdle /\ CrossIdle /\ PopMapIdle

Next == Get \/ Server

Spec == Init /\ [][Next]_vars

\* The same loop against a server that may send partial pages without end; the
\* history of requests and replies is not kept, so the state space is finite.
GetForever == GetBody /\ UNCHANGED <<reqs, hist, mafVars, trVars, cfVars, pmVars>>

ServerForever ==
    \E status \in Statuses, S \in SUBSET Keys :
        RespondBody(Reply(status, S)) /\ UNCHANGED <<reqs, hist, mafVars, trVars, cfVars, pmVars>>

NextForever == GetForever \/ ServerForever

\* get blocks until the reply arrives and every request is answered; the
\* loop always runs on
SpecForever ==
    Init /\ [][NextForever]_vars /\ WF_vars(GetForever) /\ WF_vars(ServerForever)

----------------------------------------------------------------------------
(* maf(record) *)

\* counts 0..MaxCount
MaxCount == 2

Alleles == {"A", "C", "G"}

\* the order in which a dict of alleles is iterated
AlleleOrder == <<"A", "C", "G">>

Pops == {"P1", "P2"}

\* the order in which a dict of populations is iterated
PopOrder == <<"P1", "P2">>

\* the allele-count mappings over the alleles in names
ACs(names) == UNION {[S -> 0..MaxCount] : S \in SUBSET names}

\* the keys of the dict d, in the iteration order given by order
KeysInOrder(d, order) == SelectSeq(order, LAMBDA k : k \in DOMAIN d)

\* counts = [allele_count for allele, allele_count in ac.items()]
CountList(ac) ==
    LET ks == KeysInOrder(ac, AlleleOrder)
    IN [i \in 1..Len(ks) |-> ac[ks[i]]]

RECURSIVE InsertDescending(_, _)
InsertDescending(x, s) ==
    IF s = <<>> THEN <<x>>
    ELSE IF x >= Head(s) THEN <<x>> \o s
    ELSE <<Head(s)>> \o InsertDescending(x, Tail(s))

RECURSIVE InsertAscending(_, _)
InsertAscending(x, s) ==
    IF s = <<>> THEN <<x>>
    ELSE IF x <= Head(s) THEN <<x>> \o s
    ELSE <<Head(s)>> \o InsertAscending(x, Tail(s))

RECURSIVE SortAscending(_)
\* counts.sort() without reverse=True
SortAscending(s) ==
    IF s = <<>> THEN <<>> ELSE InsertAscending(Head(s), SortAscending(Tail(s)))

RECURSIVE SortDescending(_)
\* counts.sort(reverse=True)
SortDescending(s) ==
    IF s = <<>> THEN <<>> ELSE InsertDescending(Head(s), SortDescending(Tail(s)))

RECURSIVE SumList(_)
\* sum(counts)
SumList(s) == IF s = <<>> THEN 0 ELSE Head(s) + SumList(Tail(s))

RECURSIVE Gcd(_, _)
Gcd(a, b) == IF b = 0 THEN a ELSE Gcd(b, a % b)

\* the number 0 that maf stores: 0 == 0.0 == 0 / total
Zero == <<0, 1>>

\* a / b: the quotient as a fraction in lowest terms, so that equal quotients
\* are equal values, or ZeroDivisionError
Divide(a, b) ==
    IF b = 0 THEN "ZeroDivisionError" ELSE <<a \div Gcd(a, b), b \div Gcd(a, b)>>

\* the body of the inner loop without the test of total
MafValueUnguarded(ac) ==
    LET counts == SortDescending(CountList(ac))
    IN IF Len(counts) <= 1 THEN Zero ELSE Divide(counts[2], SumList(counts))

\* the body of the inner loop: the value stored in maf[population]
MafValue(ac) ==
    LET counts == SortDescending(CountList(ac))
    IN IF Len(counts) <= 1 THEN Zero
       ELSE LET total == SumList(counts)
            IN IF total > 0 THEN Divide(counts[2], total) ELSE Zero

\* maf[population] = value
Store(d, k, v) == [x \in DOMAIN d \cup {k} |-> IF x = k THEN v ELSE d[x]]

RECURSIVE MafBlock(_, _, _)
\* for population, ac in counts['allele_counts'].items(): over the
\* populations pops still to visit; an exception ends the call
MafBlock(acc, block, pops) ==
    IF pops = <<>> \/ acc.error # NoValue THEN acc
    ELSE LET v == MafValue(block[Head(pops)])
         IN IF v = "ZeroDivisionError"
            THEN [maf |-> acc.maf, error |-> v]
            ELSE MafBlock([maf |-> Store(acc.maf, Head(pops), v), error |-> NoValue],
                          block, Tail(pops))

RECURSIVE MafRecord(_, _)
\* for project, counts in record['counts'].items():
MafRecord(acc, blocks) ==
    IF blocks = <<>> \/ acc.error # NoValue THEN acc
    ELSE MafRecord(MafBlock(acc, Head(blocks), KeysInOrder(Head(blocks), PopOrder)),
                   Tail(blocks))

\* maf(record): the dict returned, or the exception raised
Maf(rec) == MafRecord([maf |-> EmptyDict, error |-> NoValue], rec)

\* counts['allele_counts'] of one project: populations to allele counts
Blocks(acs) == UNION {[P -> acs] : P \in SUBSET Pops}

\* records of one project and one population over all the alleles
RecordsOfOne == {<<b>> : b \in UNION {[{p} -> ACs(Alleles)] : p \in Pops}}

\* records of up to two projects, where a population has counts for both of
\* the alleles A and C or for no allele
RecordsOfTwo ==
    LET B == Blocks([{"A", "C"} -> 0..MaxCount] \cup {EmptyDict})
    IN {<<>>} \cup {<<b>> : b \in B} \cup {<<b1, b2>> : b1 \in B, b2 \in B}

MafInit ==
    /\ mafPc = "call"
    /\ record \in RecordsOfOne \cup RecordsOfTwo
    /\ mafOut = Nothing

MafCall ==
    /\ mafPc = "call"
    /\ mafOut' = Maf(record)
    /\ mafPc' = "done"
    /\ UNCHANGED <<record, dlVars, trVars, cfVars, pmVars>>

InitMaf == MafInit /\ DownloadIdle /\ TranslateIdle /\ CrossIdle /\ PopMapIdle

SpecMaf == InitMaf /\ [][MafCall]_vars

----------------------------------------------------------------------------
(* translate(data) and show1() *)

\* freq[p].append(ma), freq being a defaultdict(list)
AppendTo(d, k, v) ==
    [x \in DOMAIN d \cup {k} |->
        IF x = k THEN (IF k \in DOMAIN d THEN Append(d[k], v) ELSE <<v>>) ELSE d[x]]

RECURSIVE AppendMafs(_, _, _)
\* for p, ma in mafs.items(): freq[p].append(ma)
AppendMafs(f, mafs, pops) ==
    IF pops = <<>> THEN f
    ELSE AppendMafs(AppendTo(f, Head(pops), mafs[Head(pops)]), mafs, Tail(pops))

RECURSIVE TranslateFrom(_, _)
\* for k, v in data.items(): over the items still to visit
TranslateFrom(acc, items) ==
    IF items = <<>> \/ acc.error # NoValue THEN acc
    ELSE LET k == Head(items)[1]
             v == Head(items)[2]
             mafs == Maf(v)
         IN IF mafs.error # NoValue
            THEN [acc EXCEPT !.position = Append(@, PositionOf(k)), !.error = mafs.error]
            ELSE TranslateFrom(
                     [position |-> Append(acc.position, PositionOf(k)),
                      freq |-> AppendMafs(acc.freq, mafs.maf, KeysInOrder(mafs.maf, PopOrder)),
                      error |-> NoValue],
                     Tail(items))

\* translate(data): position and freq, or the exception raised
Translate(d) == TranslateFrom([position |-> <<>>, freq |-> EmptyDict, error |-> NoValue], d)

\* the records of the datasets given to translate: one project, each
\* population absent or with counts of the alleles A and C
TranslateRecords ==
    {<<b>> : b \in Blocks({[a \in {"A", "C"} |-> IF a = "A" THEN MaxCount ELSE c] :
                              c \in 0..MaxCount})}

\* the sequences of distinct keys
KeyLists == {ks \in UNION {[1..n -> Keys] : n \in 0..Cardinality(Keys)} :
                \A i, j \in DOMAIN ks : i # j => ks[i] # ks[j]}

\* the accumulated datasets: records under distinct keys, in dict order
Datasets(records) ==
    UNION {{[i \in DOMAIN ks |-> <<ks[i], rs[i]>>] : rs \in [DOMAIN ks -> records]} :
              ks \in KeyLists}

TranslateInit ==
    /\ trPc = "call"
    /\ trData \in Datasets(TranslateRecords)
    /\ position = <<>>
    /\ freq = EmptyDict

\* x, pop = translate(data)
TranslateCall ==
    /\ trPc = "call"
    /\ LET out == Translate(trData)
       IN /\ position' = out.position
          /\ freq' = out.freq
          /\ trPc' = IF out.error = NoValue THEN "done" ELSE "raised"
    /\ UNCHANGED <<trData, dlVars, mafVars, cfVars, pmVars>>

\* show1(): data[i] for every index i of x and every population of pop
Show1 ==
    /\ trPc = "done"
    /\ trPc' = IF \A p \in DOMAIN freq : \A i \in 1..Len(position) : i <= Len(freq[p])
               THEN "shown" ELSE "IndexError"
    /\ UNCHANGED <<trData, position, freq, dlVars, mafVars, cfVars, pmVars>>

TranslateNext == TranslateCall \/ Show1

InitTranslate == TranslateInit /\ DownloadIdle /\ MafIdle /\ CrossIdle /\ PopMapIdle

SpecTranslate == InitTranslate /\ [][TranslateNext]_vars

----------------------------------------------------------------------------
(* cross_frequency(data, pop_id_x, pop_id_y) *)

\* the dataset holds at most MaxRecords records
MaxRecords == 2
\* and at most MaxBlocks project blocks in all
MaxBlocks == 3

\* the allele counts a population may have in a block
CrossACs == {"A" :> 0, "A" :> 2 @@ "C" :> 3, "A" :> 3 @@ "C" :> 2, "C" :> 1}

\* _pop_freq that gives an empty dict, not None, when total is 0
PopFreqEmptyForZero(p) ==
    LET total == SumList(CountList(p))
    IN IF total = 0 THEN [none |-> FALSE, r |-> EmptyDict]
       ELSE [none |-> FALSE, r |-> [allele \in DOMAIN p |-> Divide(p[allele], total)]]

\* _pop_freq(p): None, or the dict r of allele frequencies
PopFreq(p) ==
    LET total == SumList(CountList(p))
    IN IF total = 0 THEN [none |-> TRUE, r |-> EmptyDict]
       ELSE [none |-> FALSE, r |-> [allele \in DOMAIN p |-> Divide(p[allele], total)]]

\* the body of the loop over pfx with res_x[a].append(fx) outside the test
AppendPairXAlways(res, a, pfx, pfy) ==
    [x |-> AppendTo(res.x, a, pfx[a]),
     y |-> IF a \in DOMAIN pfy THEN AppendTo(res.y, a, pfy[a]) ELSE res.y]

\* if a in pfy: res_x[a].append(fx); res_y[a].append(pfy[a])
AppendPair(res, a, pfx, pfy) ==
    IF a \in DOMAIN pfy
    THEN [x |-> AppendTo(res.x, a, pfx[a]), y |-> AppendTo(res.y, a, pfy[a])]
    ELSE res

RECURSIVE AppendPairs(_, _, _, _)
\* for a, fx in pfx.items(): over the alleles still to visit
AppendPairs(res, alleles, pfx, pfy) ==
    IF alleles = <<>> THEN res
    ELSE AppendPairs(AppendPair(res, Head(alleles), pfx, pfy), Tail(alleles), pfx, pfy)

CrossInit ==
    /\ cfPc = "loop"
    /\ pop_id_x \in Pops
    /\ pop_id_y \in Pops
    /\ allele_counts = EmptyDict
    /\ res_x = EmptyDict
    /\ res_y = EmptyDict
    /\ records_missing_pop_data = 0
    /\ total_records = 0
    /\ stderr = Nothing
    /\ visited = 0
    /\ zeroBlocks = 0

\* for _, record in data.items(): total_records += 1
NextRecord ==
    /\ cfPc = "loop"
    /\ total_records < MaxRecords
    /\ total_records' = total_records + 1
    /\ UNCHANGED <<cfPc, pop_id_x, pop_id_y, allele_counts, res_x, res_y,
                   records_missing_pop_data, stderr, visited, zeroBlocks>>

\* a population of the block has the total count 0
HasZeroTotal(block) ==
    \E p \in {pop_id_x, pop_id_y} \cap DOMAIN block :
        \A a \in DOMAIN block[p] : block[p][a] = 0

\* the body of the loop over the blocks of the current record, run on block
VisitBlock(block) ==
    /\ cfPc = "loop"
    /\ total_records >= 1
    /\ allele_counts' = block
    /\ IF pop_id_x \notin DOMAIN block \/ pop_id_y \notin DOMAIN block
       THEN /\ cfPc' = "KeyError"
            /\ UNCHANGED <<res_x, res_y, records_missing_pop_data>>
       ELSE LET pfx == PopFreq(block[pop_id_x])
                pfy == PopFreq(block[pop_id_y])
            IN IF pfx.none \/ pfy.none
               THEN /\ records_missing_pop_data' = records_missing_pop_data + 1
                    /\ UNCHANGED <<cfPc, res_x, res_y>>
               ELSE LET res == AppendPairs([x |-> res_x, y |-> res_y],
                                           KeysInOrder(pfx.r, AlleleOrder), pfx.r, pfy.r)
                    IN /\ res_x' = res.x
                       /\ res_y' = res.y
                       /\ UNCHANGED <<cfPc, records_missing_pop_data>>
    /\ UNCHANGED <<pop_id_x, pop_id_y, total_records, stderr>>

\* the current record yields its next block
NextBlock ==
    \E block \in Blocks(CrossACs) :
        /\ visited < MaxBlocks
        /\ VisitBlock(block)
        /\ visited' = visited + 1
        /\ zeroBlocks' = IF HasZeroTotal(block) THEN zeroBlocks + 1 ELSE zeroBlocks
        /\ UNCHANGED <<dlVars, mafVars, trVars, pmVars>>

\* print(..., file=sys.stderr); return res_x, res_y
CrossReturn ==
    /\ cfPc = "loop"
    /\ stderr' = <<records_missing_pop_data, total_records>>
    /\ cfPc' = "done"
    /\ UNCHANGED <<pop_id_x, pop_id_y, allele_counts, res_x, res_y, records_missing_pop_data,
                   total_records, visited, zeroBlocks>>

CrossNext ==
    \/ NextRecord /\ UNCHANGED <<dlVars, mafVars, trVars, pmVars>>
    \/ NextBlock
    \/ CrossReturn /\ UNCHANGED <<dlVars, mafVars, trVars, pmVars>>

InitCross == CrossInit /\ DownloadIdle /\ MafIdle /\ TranslateIdle /\ PopMapIdle

SpecCross == InitCross /\ [][CrossNext]_vars

----------------------------------------------------------------------------
(* build_pop_map() *)

\* the metadata tree has at most MaxNodes nodes
MaxNodes == 4

BiosampleIds == {"SAMN1", "SAMN2"}

\* The shapes of the metadata trees of n nodes. Node i has the parent
\* parent[i] < i (0 for a population of the top list), the biosample id id[i]
\* and the name i; the children of a node are listed by rising number. A node
\* without children has the key "subs", with an empty list, when empty[i].
Forests(n) ==
    {f \in [parent : [1..n -> 0..n], id : [1..n -> BiosampleIds], empty : [1..n -> BOOLEAN]] :
        \A i \in 1..n :
            /\ f.parent[i] < i
            /\ f.empty[i] => \A j \in 1..n : f.parent[j] # i}

\* the children of node i (of the top list for i = 0), in list order
ChildrenOf(f, i) ==
    SelectSeq([k \in DOMAIN f.parent |-> k], LAMBDA j : f.parent[j] = i)

RECURSIVE PopList(_, _)
\* the JSON list of the populations under node i, each with biosample_id,
\* name and, unless it has none, subs
PopList(f, i) ==
    LET ch == ChildrenOf(f, i)
    IN [k \in 1..Len(ch) |->
          IF ChildrenOf(f, ch[k]) # <<>> \/ f.empty[ch[k]]
          THEN [biosample_id |-> f.id[ch[k]], name |-> ch[k], subs |-> PopList(f, ch[k])]
          ELSE [biosample_id |-> f.id[ch[k]], name |-> ch[k]]]

RECURSIVE ReadChildrenFirst(_, _)
\* _read that descends into pop["subs"] before it stores the population
ReadChildrenFirst(res, pops) ==
    IF pops = <<>> THEN res
    ELSE LET pop == Head(pops)
             below == IF "subs" \in DOMAIN pop THEN ReadChildrenFirst(res, pop.subs) ELSE res
         IN ReadChildrenFirst(Store(below, pop.biosample_id, pop.name), Tail(pops))

RECURSIVE Read(_, _)
\* _read(pops): for pop in pops, over the populations still to visit
Read(res, pops) ==
    IF pops = <<>> THEN res
    ELSE LET pop == Head(pops)
             stored == Store(res, pop.biosample_id, pop.name)
         IN Read(IF "subs" \in DOMAIN pop THEN Read(stored, pop.subs) ELSE stored,
                 Tail(pops))

\* the status codes of the reply of the metadata service
MetaStatuses == {HTTP_OK, HTTP_PARTIAL, 404}

PopMapInit ==
    /\ pmPc = "call"
    /\ forest \in UNION {Forests(n) : n \in 0..MaxNodes}
    /\ \E status \in MetaStatuses :
          meta_r = [status_code |-> status, populations |-> PopList(forest, 0)]
    /\ pmResult = EmptyDict

\* meta = build_pop_map()
BuildPopMap ==
    /\ pmPc = "call"
    /\ IF meta_r.status_code # HTTP_OK
       THEN pmPc' = "raised" /\ pmResult' = pmResult
       ELSE pmPc' = "returned" /\ pmResult' = Read(EmptyDict, meta_r.populations)
    /\ UNCHANGED <<forest, meta_r, dlVars, mafVars, trVars, cfVars>>

InitPopMap == PopMapInit /\ DownloadIdle /\ MafIdle /\ TranslateIdle /\ CrossIdle

SpecPopMap == InitPopMap /\ [][BuildPopMap]_vars

----------------------------------------------------------------------------
(* Properties of download *)

NReq == Len(reqs)

Terminated == pc \in {"returned", "raised"}

\* a status outside 200..299
Non2xx(status) == status < 200 \/ status > 299

\* the positions of the keys of a page, read off the key format
PagePositions(body) == {p \in Positions : Key(p) \in DOMAIN body}

Max(S) == CHOOSE m \in S : \A x \in S : x <= m

\* the keys of all the pages received
UnionKeys(h) == UNION {DOMAIN h[i].body : i \in 1..Len(h)}

\* the last page that holds key k
LastPageWith(h, k) ==
    CHOOSE i \in 1..Len(h) :
        /\ k \in DOMAIN h[i].body
        /\ \A j \in (i + 1)..Len(h) : k \notin DOMAIN h[j].body

\* the body of the reply is merged into data by the step
MergedByStep ==
    /\ DOMAIN data' = DOMAIN data \cup DOMAIN resp'.body
    /\ \A k \in DOMAIN data' :
          data'[k] = IF k \in DOMAIN resp'.body THEN resp'.body[k] ELSE data[k]

\* C1: when the first n-1 replies are 206 and the n-th is 200, download has
\* issued exactly n requests and returns the union of the keys of the n pages,
\* each key with the record of the last page that holds it.
C1_Pagination ==
    (/\ pc = "returned"
     /\ \A i \in 1..(Len(hist) - 1) : hist[i].status = HTTP_PARTIAL)
    => /\ hist[Len(hist)].status = HTTP_OK
       /\ NReq = Len(hist)
       /\ Len(ret) = 1
       /\ DOMAIN ret[1] = UnionKeys(hist)
       /\ \A k \in DOMAIN ret[1] : ret[1][k] = hist[LastPageWith(hist, k)].body[k]

\* three pages, 206, 206, 200, that overlap and that each bring a new or a
\* repeated key
C1_Witness ==
    /\ pc = "returned"
    /\ Len(hist) = 3
    /\ hist[1].status = HTTP_PARTIAL /\ hist[2].status = HTTP_PARTIAL
    /\ hist[3].status = HTTP_OK
    /\ DOMAIN hist[1].body \cap DOMAIN hist[2].body # {}
    /\ DOMAIN hist[3].body # {}
    /\ DOMAIN hist[3].body # UnionKeys(hist)

\* C2: a reply with a non-2xx status, after any number of partial pages, makes
\* download raise at once with the status and the body; the body is not
\* merged, nothing is returned and no step follows.
C2_FailFast ==
    [][/\ pc # "raised"
       /\ (pc = "wait" /\ Non2xx(resp'.status))
            => /\ pc' = "raised"
               /\ err'[2] = resp'.status /\ err'[3] = resp'.body
               /\ data' = data
               /\ ret' = Nothing
               /\ reqs' = reqs]_vars

\* a failure after two partial pages, whose body holds a key never merged
C2_Witness ==
    /\ pc = "raised"
    /\ Len(hist) = 3
    /\ DOMAIN data # {}
    /\ ~(DOMAIN resp.body \subseteq DOMAIN data)
    /\ ret = Nothing

\* the three outcomes of a reply
StepComplete == pc' = "returned" /\ MergedByStep /\ ret' = <<data'>>
StepPartial == pc' = "top" /\ MergedByStep /\ ret' = Nothing /\ err' = Nothing
StepFailure == pc' = "raised" /\ data' = data /\ ret' = Nothing /\ err' # Nothing

\* C3 as stated: 200 is complete, 206 is partial and every other status,
\* other 2xx codes included, is a failure.
C3_AsStated ==
    [][pc = "wait" =>
         /\ (resp'.status = HTTP_OK => StepComplete)
         /\ (resp'.status = HTTP_PARTIAL => StepPartial)
         /\ (resp'.status \notin {HTTP_OK, HTTP_PARTIAL} => StepFailure)]_vars

\* C3 (amended): 200 is the only status treated as complete, every other 2xx
\* status (206, and also 201) is treated as partial, and exactly the non-2xx
\* statuses are treated as failure.
C3_Classification ==
    [][pc = "wait" =>
         /\ (resp'.status = HTTP_OK => StepComplete)
         /\ (resp'.status \in 200..299 \ {HTTP_OK} => StepPartial)
         /\ (Non2xx(resp'.status) => StepFailure)]_vars

\* a 201 reply has been merged and download is about to request again
C3_Witness ==
    /\ pc = "top"
    /\ resp.status = 201
    /\ DOMAIN resp.body # {}
    /\ \A k \in DOMAIN resp.body : data[k] = resp.body[k]

\* every request asks for max(1, stop - start + 1) positions, at least one
LengthFloored(r) ==
    /\ r[2] >= 1
    /\ r[2] >= stop - r[1] + 1
    /\ r[2] \in {1, stop - r[1] + 1}

\* C9 as stated: after a 206 reply the next request starts at the maximum
\* position among the keys of the reply.
C9_AsStated ==
    \A i \in 1..Len(hist) :
        (hist[i].status = HTTP_PARTIAL /\ i < Len(reqs) /\ DOMAIN hist[i].body # {})
        => /\ reqs[i + 1][1] = Max(PagePositions(hist[i].body))
           /\ LengthFloored(reqs[i + 1])

\* C9 (amended): after a 206 reply the next request starts at the larger of
\* the previous start and the maximum position among the keys of the reply
\* (the previous start when the page is empty), and every request asks for
\* max(1, stop - start + 1) positions.
C9_NextStart ==
    /\ \A i \in 1..Len(hist) :
          (hist[i].status = HTTP_PARTIAL /\ i < Len(reqs))
          => reqs[i + 1][1] = Max({reqs[i][1]} \cup PagePositions(hist[i].body))
    /\ \A i \in 1..Len(reqs) : LengthFloored(reqs[i])

\* a 206 page that advances start and one that does not, and a request whose
\* length is floored at 1 because start has passed stop
C9_Witness ==
    /\ Len(reqs) = 3
    /\ hist[1].status = HTTP_PARTIAL /\ hist[2].status = HTTP_PARTIAL
    /\ reqs[2][1] > reqs[1][1]
    /\ DOMAIN hist[2].body # {}
    /\ Max(PagePositions(hist[2].body)) < reqs[2][1]
    /\ reqs[3][1] = reqs[2][1]
    /\ stop < reqs[3][1] /\ reqs[3][2] = 1

\* the last reply ends the pagination: it is complete or a failure
TerminalReply == resp # NoReply /\ (resp.status = HTTP_OK \/ Non2xx(resp.status))

\* C10: download terminates exactly when a reply is complete (200) or a
\* failure, and at that reply; while every reply is partial it issues
\* requests forever, also when a page is empty, start does not advance or
\* start has passed stop.
C10_Termination ==
    /\ [](Terminated <=> TerminalReply)
    /\ [][pc = "wait" =>
            IF resp'.status = HTTP_OK \/ Non2xx(resp'.status)
            THEN pc' \in {"returned", "raised"}
            ELSE pc' = "top"]_vars
    /\ (<>TerminalReply => <>[]Terminated)
    /\ ([](resp # NoReply => resp.status = HTTP_PARTIAL) => []<><<GetBody>>_vars)

\* an empty 206 page arrived when start had passed stop, and the same
\* request of length 1 is in flight again
C10_Witness ==
    /\ pc = "wait"
    /\ resp.status = HTTP_PARTIAL
    /\ resp.body = EmptyDict
    /\ start > stop
    /\ req = <<start, 1>>

----------------------------------------------------------------------------
(* Properties of maf *)

\* the populations listed by some project of the record
PopsOf(rec) == UNION {DOMAIN rec[i] : i \in 1..Len(rec)}

\* the last project of the record that lists population p
LastProjectWith(rec, p) ==
    CHOOSE i \in 1..Len(rec) :
        /\ p \in DOMAIN rec[i]
        /\ \A j \in (i + 1)..Len(rec) : p \notin DOMAIN rec[j]

RECURSIVE SumOver(_, _)
\* the sum of the counts of the alleles in S
SumOver(ac, S) ==
    IF S = {} THEN 0
    ELSE LET a == CHOOSE x \in S : TRUE IN ac[a] + SumOver(ac, S \ {a})

\* the second-largest count: the largest count left when one allele of
\* largest count is set aside
SecondLargest(ac) ==
    LET top == CHOOSE a \in DOMAIN ac : \A b \in DOMAIN ac : ac[b] <= ac[a]
    IN Max({ac[b] : b \in DOMAIN ac \ {top}})

\* the value v is the quotient n / d
IsQuotient(v, n, d) == v[2] > 0 /\ v[1] * d = n * v[2]

\* the value the claim gives to a population with the allele counts ac
MafAsClaimed(v, ac) ==
    IF Cardinality(DOMAIN ac) <= 1 THEN IsQuotient(v, 0, 1)
    ELSE IF SumOver(ac, DOMAIN ac) = 0 THEN IsQuotient(v, 0, 1)
    ELSE IsQuotient(v, SecondLargest(ac), SumOver(ac, DOMAIN ac))

\* C4: maf never fails (no division by a zero total) and maps each population
\* that some project lists to the value of its allele counts in the last
\* project that lists it: 0 with at most one allele, 0 when the counts sum to
\* 0, and else the second-largest count over the sum of the counts.
C4_Maf ==
    mafPc = "done" =>
        /\ mafOut.error = NoValue
        /\ DOMAIN mafOut.maf = PopsOf(record)
        /\ \A p \in PopsOf(record) :
              MafAsClaimed(mafOut.maf[p], record[LastProjectWith(record, p)][p])

\* a population listed by both projects with different values, the later one
\* kept, and a population that only the first project lists
C4_Witness ==
    /\ mafPc = "done"
    /\ Len(record) = 2
    /\ "P1" \in DOMAIN record[1] /\ "P1" \in DOMAIN record[2]
    /\ "P2" \in DOMAIN record[1] /\ "P2" \notin DOMAIN record[2]
    /\ MafValue(record[1]["P1"]) # MafValue(record[2]["P1"])
    /\ mafOut.maf["P1"] = <<1, 3>>
    /\ SumOver(record[1]["P2"], DOMAIN record[1]["P2"]) = 0
    /\ mafOut.maf["P2"] = Zero

----------------------------------------------------------------------------
(* Properties of translate *)

\* C5: translate gives one position per record, in the order of the dataset,
\* and for every population of freq a sequence as long as position whose i-th
\* entry is the MAF of the population in the i-th record, so that show1 can
\* index it at every index of position.
C5_Aligned ==
    trPc \in {"done", "shown", "IndexError"} =>
        /\ Len(position) = Len(trData)
        /\ \A i \in 1..Len(trData) : trData[i][1] = Key(position[i])
        /\ \A p \in DOMAIN freq :
              /\ Len(freq[p]) = Len(position)
              /\ \A i \in 1..Len(position) :
                    /\ p \in DOMAIN Maf(trData[i][2]).maf
                    /\ freq[p][i] = Maf(trData[i][2]).maf[p]
        /\ trPc # "IndexError"

----------------------------------------------------------------------------
(* Properties of cross_frequency *)

\* the step visits a block that lists both populations
VisitsFullBlock ==
    /\ visited' = visited + 1
    /\ pop_id_x \in DOMAIN allele_counts'
    /\ pop_id_y \in DOMAIN allele_counts'

\* the total count of population p in the block
TotalOf(block, p) == SumOver(block[p], DOMAIN block[p])

\* the sequence held for allele a, empty when the allele is no key
SeqOf(res, a) == IF a \in DOMAIN res THEN res[a] ELSE <<>>

\* the step appends exactly one frequency pair of the block for allele a
AppendsPairFor(a) ==
    /\ a \in DOMAIN res_x' /\ a \in DOMAIN res_y'
    /\ Len(res_x'[a]) = Len(SeqOf(res_x, a)) + 1
    /\ Len(res_y'[a]) = Len(SeqOf(res_y, a)) + 1
    /\ SubSeq(res_x'[a], 1, Len(SeqOf(res_x, a))) = SeqOf(res_x, a)
    /\ SubSeq(res_y'[a], 1, Len(SeqOf(res_y, a))) = SeqOf(res_y, a)
    /\ IsQuotient(res_x'[a][Len(res_x'[a])], allele_counts'[pop_id_x][a],
                  TotalOf(allele_counts', pop_id_x))
    /\ IsQuotient(res_y'[a][Len(res_y'[a])], allele_counts'[pop_id_y][a],
                  TotalOf(allele_counts', pop_id_y))

\* the step leaves allele a as it is in both results
LeavesAllele(a) ==
    /\ (a \in DOMAIN res_x') = (a \in DOMAIN res_x)
    /\ (a \in DOMAIN res_y') = (a \in DOMAIN res_y)
    /\ SeqOf(res_x', a) = SeqOf(res_x, a)
    /\ SeqOf(res_y', a) = SeqOf(res_y, a)

\* C6: while every block lists both populations, res_x and res_y have the same
\* allele keys and sequences of equal length; a block in which both
\* populations have a nonzero total appends, for every allele present in both,
\* the pair of its two frequencies in that block at the end of the allele's
\* two sequences, and nothing else is appended.
C6_Aligned ==
    /\ [](cfPc # "KeyError" =>
            /\ DOMAIN res_x = DOMAIN res_y
            /\ \A a \in DOMAIN res_x : Len(res_x[a]) = Len(res_y[a]))
    /\ [][VisitsFullBlock =>
            /\ cfPc' = "loop"
            /\ \A a \in Alleles :
                  IF /\ TotalOf(allele_counts', pop_id_x) # 0
                     /\ TotalOf(allele_counts', pop_id_y) # 0
                     /\ a \in DOMAIN allele_counts'[pop_id_x]
                     /\ a \in DOMAIN allele_counts'[pop_id_y]
                  THEN AppendsPairFor(a)
                  ELSE LeavesAllele(a)]_vars
    /\ [][visited' = visited => (res_x' = res_x /\ res_y' = res_y)]_vars

\* two blocks gave pairs for allele A with different frequencies on the two
\* sides, and one of them gave a pair for C as well
C6_Witness ==
    /\ cfPc = "done"
    /\ visited = 3
    /\ pop_id_x # pop_id_y
    /\ DOMAIN res_x = {"A", "C"}
    /\ res_x["A"] = <<<<2, 5>>, <<3, 5>>>>
    /\ res_y["A"] = <<<<3, 5>>, <<3, 5>>>>
    /\ Len(res_x["C"]) = 2

\* C7: when cross_frequency finishes, the skip counter is the number of blocks
\* in which one of the two populations has the total 0; such a block appends
\* nothing, and the loop goes on with the blocks and records that follow.
C7_SkipCount ==
    /\ [](cfPc = "done" =>
            /\ records_missing_pop_data = zeroBlocks
            /\ stderr[1] = zeroBlocks)
    /\ [][(VisitsFullBlock /\ (\/ TotalOf(allele_counts', pop_id_x) = 0
                               \/ TotalOf(allele_counts', pop_id_y) = 0))
            => /\ records_missing_pop_data' = records_missing_pop_data + 1
               /\ res_x' = res_x /\ res_y' = res_y
               /\ cfPc' = "loop"]_vars

\* the example of the spec, the pair (0.4, 0.6) for allele A, then one block
\* skipped and, after it, a block that is not skipped; two records in all
C7_Witness ==
    /\ cfPc = "done"
    /\ pop_id_x # pop_id_y
    /\ total_records = 2
    /\ visited = 3
    /\ records_missing_pop_data = 1
    /\ stderr = <<1, 2>>
    /\ "A" \in DOMAIN res_x
    /\ Len(res_x["A"]) = 2
    /\ res_x["A"][1] = <<2, 5>> /\ res_y["A"][1] = <<3, 5>>
    /\ TotalOf(allele_counts, pop_id_x) # 0
    /\ TotalOf(allele_counts, pop_id_y) # 0

----------------------------------------------------------------------------
(* Properties of build_pop_map *)

NodesOf(f) == DOMAIN f.parent

RECURSIVE AncestorsOrSelf(_, _)
AncestorsOrSelf(f, i) == IF i = 0 THEN {} ELSE {i} \cup AncestorsOrSelf(f, f.parent[i])

\* node u is visited before node v in depth-first pre-order: u is an ancestor
\* of v, or the branches to u and to v part at two siblings and the one
\* towards u comes first in its list
Before(f, u, v) ==
    /\ u # v
    /\ \/ u \in AncestorsOrSelf(f, v)
       \/ \E a \in AncestorsOrSelf(f, u), b \in AncestorsOrSelf(f, v) :
             a # b /\ f.parent[a] = f.parent[b] /\ a < b

\* the last node in pre-order that carries the biosample id
LastNodeWith(f, id) ==
    CHOOSE n \in NodesOf(f) :
        /\ f.id[n] = id
        /\ \A m \in NodesOf(f) \ {n} : f.id[m] = id => Before(f, m, n)

\* the depth of node i: 1 for a population of the top list
Depth(f, i) == Cardinality(AncestorsOrSelf(f, i))

\* C8: with status 200 build_pop_map returns a mapping whose keys are the
\* biosample ids of the nodes at every depth, each with the name of the last
\* node in depth-first pre-order that carries it; with any other status it
\* raises and returns no mapping.
C8_PopMap ==
    pmPc # "call" =>
        IF meta_r.status_code = 200
        THEN /\ pmPc = "returned"
             /\ DOMAIN pmResult = {forest.id[n] : n \in NodesOf(forest)}
             /\ \A id \in DOMAIN pmResult : pmResult[id] = LastNodeWith(forest, id)
        ELSE pmPc = "raised" /\ pmResult = EmptyDict

\* a tree three levels deep in which a node below carries the id of a node
\* above it and a later sibling branch carries another id
C8_Witness ==
    /\ pmPc = "returned"
    /\ Len(forest.parent) = 4
    /\ \E n \in NodesOf(forest) : Depth(forest, n) = 3
    /\ \E u, v \in NodesOf(forest) :
          /\ u \in AncestorsOrSelf(forest, v) /\ u # v
          /\ forest.id[u] = forest.id[v]
          /\ pmResult[forest.id[v]] # u
    /\ \E u, v \in NodesOf(forest) : u < v /\ Before(forest, v, u)
    /\ DOMAIN pmResult = BiosampleIds

====
